---- MODULE Spec2Model ----
(***************************************************************************)
(* sshca: an SSH user-certificate issuer whose CA key lives in a remote    *)
(* key-management service.  One process run (fn main) resolves the CA key  *)
(* with GetPublicKey (Key::get), and for the command "sign" derives the    *)
(* output path, loads the subject key, reads the clock, builds the         *)
(* certificate, has it signed remotely (Key::sign) and writes it to a      *)
(* file (Key::sign_path).  Several runs in a row share the file system.    *)
(***************************************************************************)
EXTENDS Integers, Sequences, FiniteSets, TLC

VARIABLES
    env,          \* the process environment: command, $SSHCA_KEY_ID, user, key path, build profile
    run,          \* number of the current process run
    pc,           \* position of the run in main / Key::get / Key::sign_path
    calls,        \* remote requests issued by this run, in order
    inFlight,     \* indices (into calls) of the remote calls not yet completed
    getResp,      \* Option: the outcome of this run's GetPublicKey call
    key,          \* Option<Key>: the value Key::get returned
    out,          \* Option<Utf8PathBuf>: cert_path(path)
    subject,      \* Option<PublicKey>: the subject key loaded from path
    clock,        \* Option: the reading of SystemTime::now()
    cert,         \* Option<Certificate>: the certificate under construction
    signedCerts,  \* number of signed certificates this run produced
    subjFile,     \* Option: content of the file at the subject-key path
    certFile,     \* Option: content of the file at the -cert.pub path
    certFileAtStart, \* certFile as it was when this run started
    result,       \* "running", "ok", "err" (main returned Err) or "panic"
    failedAt,     \* the stage at which the run failed, "" if none
    stages,       \* the stages this run has completed, in order
    stdout,       \* lines printed by this run
    prevSignFailed, \* an earlier run failed at the remote Sign call
    enc           \* input and output of the signature-envelope encoder under test

vars == <<env, run, pc, calls, inFlight, getResp, key, out, subject, clock, cert,
          signedCerts, subjFile, certFile, certFileAtStart, result, failedAt,
          stages, stdout, prevSignFailed, enc>>

-----------------------------------------------------------------------------
(* Option<T>: None is the empty sequence, Some(x) the one-element sequence. *)
None == <<>>
Some(x) == <<x>>
IsSome(o) == o # <<>>
Unwrap(o) == o[1]

-----------------------------------------------------------------------------
(* Bounds of the model. *)
MaxRuns == 2       \* process runs in a row
LineLen == 3       \* bytes of a serialized certificate line (the last is "\n")
NowSpread == 1     \* clock samples taken on each side of the interesting values
MaxPathLen == 7    \* characters of a subject-key path (path specification)
MaxNameLen == 2    \* bytes of an algorithm name (encoder specification)
MaxSigLen == 2     \* bytes of a raw signature

-----------------------------------------------------------------------------
(* u64 arithmetic: a value is four 16-bit limbs, most significant first.   *)
Base == 2^16
Day == 86400

U64FromInt(n) == <<0, 0, n \div Base, n % Base>>

U64Max == <<Base - 1, Base - 1, Base - 1, Base - 1>>

\* U64Max - a (no borrow can occur)
U64Compl(a) == <<Base - 1 - a[1], Base - 1 - a[2], Base - 1 - a[3], Base - 1 - a[4]>>

\* a + b on 64 bits: the wrapped value and whether the sum overflowed
U64Add(a, b) ==
    LET s4 == a[4] + b[4]
        s3 == a[3] + b[3] + (s4 \div Base)
        s2 == a[2] + b[2] + (s3 \div Base)
        s1 == a[1] + b[1] + (s2 \div Base)
    IN  [val |-> <<s1 % Base, s2 % Base, s3 % Base, s4 % Base>>,
         overflow |-> s1 \div Base # 0]

U64Lt(a, b) ==
    \/ a[1] < b[1]
    \/ a[1] = b[1] /\ a[2] < b[2]
    \/ a[1] = b[1] /\ a[2] = b[2] /\ a[3] < b[3]
    \/ a[1] = b[1] /\ a[2] = b[2] /\ a[3] = b[3] /\ a[4] < b[4]

\* `now + 86400` on u64: a build with overflow checks panics on overflow
\* (None), a build without them wraps.
AddDay(now, overflowChecks) ==
    LET s == U64Add(now, U64FromInt(Day))
    IN  IF s.overflow /\ overflowChecks THEN None ELSE Some(s.val)

\* Clock readings: before the epoch, or a number of whole seconds after it.
NowSamples ==
    {U64FromInt(d) : d \in 0..NowSpread}
    \cup {U64FromInt(1700000000)}
    \cup {U64Compl(U64FromInt(Day + d)) : d \in (0 - NowSpread)..(NowSpread - 1)}
    \cup {U64Compl(U64FromInt(d)) : d \in 0..NowSpread}

ClockReadings ==
    {[before_epoch |-> TRUE, secs |-> U64FromInt(0)]}
    \cup {[before_epoch |-> FALSE, secs |-> n] : n \in NowSamples}

\* a variant that takes the distance from the epoch on either side of it
duration_since_epoch_abs(reading) == Some(reading.secs)

\* SystemTime::now().duration_since(UNIX_EPOCH) ... .as_secs()
duration_since_epoch(reading) ==
    IF reading.before_epoch THEN None ELSE Some(reading.secs)

-----------------------------------------------------------------------------
(* Paths.  A path is its text, a sequence of one-character strings.  The   *)
(* operators follow std::path on Unix, which camino's Utf8Path wraps.      *)
Sep == "/"
DotPub == <<".", "p", "u", "b">>
CertDotPub == <<"-", "c", "e", "r", "t", ".", "p", "u", "b">>

has_root(p) == Len(p) > 0 /\ p[1] = Sep

\* a leading "." component ("." or "./...") of a relative path
include_cur_dir(p) ==
    /\ ~has_root(p)
    /\ Len(p) >= 1
    /\ p[1] = "."
    /\ (Len(p) = 1 \/ p[2] = Sep)

len_before_body(p) ==
    (IF has_root(p) THEN 1 ELSE 0) + (IF include_cur_dir(p) THEN 1 ELSE 0)

\* position of the last separator of p[start+1..n], 0 if there is none
RECURSIVE LastSep(_, _, _)
LastSep(p, n, start) ==
    IF n <= start THEN 0
    ELSE IF p[n] = Sep THEN n
    ELSE LastSep(p, n - 1, start)

\* Components::parse_next_component_back on p[1..n]: the last component's
\* text and the number of characters it takes, its separator included
parse_next_component_back(p, n) ==
    LET start == len_before_body(p)
        i == LastSep(p, n, start)
    IN  IF i = 0
        THEN [text |-> SubSeq(p, start + 1, n), size |-> n - start]
        ELSE [text |-> SubSeq(p, i + 1, n), size |-> n - i + 1]

\* parse_single_component: "" and "." are no component in the body
ComponentKind(text) ==
    IF text = <<>> \/ text = <<".">> THEN "None"
    ELSE IF text = <<".", ".">> THEN "ParentDir"
    ELSE "Normal"

\* Components::next_back on p[1..n]: the last component and what is left
RECURSIVE next_back(_, _)
next_back(p, n) ==
    IF n > len_before_body(p)
    THEN LET c == parse_next_component_back(p, n)
         IN  IF ComponentKind(c.text) = "None"
             THEN next_back(p, n - c.size)
             ELSE [kind |-> ComponentKind(c.text), text |-> c.text, rest |-> n - c.size]
    ELSE IF n > 0 /\ has_root(p) THEN [kind |-> "RootDir", text |-> <<Sep>>, rest |-> n - 1]
    ELSE IF n > 0 /\ include_cur_dir(p) THEN [kind |-> "CurDir", text |-> <<".">>, rest |-> n - 1]
    ELSE [kind |-> "None", text |-> <<>>, rest |-> n]

\* Components::trim_right: drops trailing separators and "." components
RECURSIVE trim_right(_, _)
trim_right(p, n) ==
    IF n > len_before_body(p)
    THEN LET c == parse_next_component_back(p, n)
         IN  IF ComponentKind(c.text) = "None" THEN trim_right(p, n - c.size) ELSE n
    ELSE n

\* Path::file_name
file_name(p) ==
    LET c == next_back(p, Len(p))
    IN  IF c.kind = "Normal" THEN Some(c.text) ELSE None

\* Path::parent
parent(p) ==
    LET c == next_back(p, Len(p))
    IN  IF c.kind \in {"Normal", "CurDir", "ParentDir"}
        THEN Some(SubSeq(p, 1, trim_right(p, c.rest)))
        ELSE None

\* PathBuf::pop
pop(p) == IF IsSome(parent(p)) THEN Unwrap(parent(p)) ELSE p

\* PathBuf::push
push(buf, name) ==
    IF has_root(name) THEN name
    ELSE IF buf # <<>> /\ buf[Len(buf)] # Sep THEN buf \o <<Sep>> \o name
    ELSE buf \o name

\* Path::with_file_name (PathBuf::set_file_name on a copy)
with_file_name(p, name) ==
    push(IF IsSome(file_name(p)) THEN pop(p) ELSE p, name)

\* str::strip_suffix
strip_suffix(s, suffix) ==
    IF Len(s) >= Len(suffix) /\ SubSeq(s, Len(s) - Len(suffix) + 1, Len(s)) = suffix
    THEN Some(SubSeq(s, 1, Len(s) - Len(suffix)))
    ELSE None

\* a variant that strips "pub" and leaves the dot in the name
cert_path_strip_pub(path) ==
    LET name == file_name(path)
        stem == IF IsSome(name) THEN strip_suffix(Unwrap(name), <<"p", "u", "b">>) ELSE None
    IN  IF IsSome(stem)
        THEN Some(with_file_name(path, Unwrap(stem) \o CertDotPub))
        ELSE None

\* fn cert_path
cert_path(path) ==
    LET name == file_name(path)
        stem == IF IsSome(name) THEN strip_suffix(Unwrap(name), DotPub) ELSE None
    IN  IF IsSome(stem)
        THEN Some(with_file_name(path, Unwrap(stem) \o CertDotPub))
        ELSE None

\* the paths of the main specification: "p.pub", "u/.pub", "u/p.pub/",
\* "pub" (no suffix to strip) and ".." (no file name)
PathSamples ==
    { <<"p", ".", "p", "u", "b">>,
      <<"u", "/", ".", "p", "u", "b">>,
      <<"u", "/", "p", ".", "p", "u", "b", "/">>,
      <<"p", "u", "b">>,
      <<".", ".">> }

PathChars == {"/", ".", "p", "u", "b"}

RECURSIVE TextsUpTo(_, _)
TextsUpTo(chars, n) ==
    IF n = 0 THEN {<<>>}
    ELSE LET shorter == TextsUpTo(chars, n - 1)
         IN  shorter \cup {Append(t, c) : t \in {s \in shorter : Len(s) = n - 1}, c \in chars}

-----------------------------------------------------------------------------
(* The SSH signature envelope: two length-prefixed fields.                 *)

\* a length as four bytes, big-endian
BE32(n) == <<(n \div 2^24) % 256, (n \div 2^16) % 256, (n \div 2^8) % 256, n % 256>>

\* a variant that writes the lengths little-endian
Encode_little_endian(name, sig) ==
    LET LE32(n) == <<n % 256, (n \div 2^8) % 256, (n \div 2^16) % 256, (n \div 2^24) % 256>>
    IN  LE32(Len(name)) \o name \o LE32(Len(sig)) \o sig

\* encode(algorithm_name, raw_signature)
Encode(name, sig) == BE32(Len(name)) \o name \o BE32(Len(sig)) \o sig

\* "rsa-sha2-512"
RsaSha2_512 == <<114, 115, 97, 45, 115, 104, 97, 50, 45, 53, 49, 50>>

\* sshcerts::utils::format_signature_for_ssh for the key kinds Key::get builds
format_signature_for_ssh(public_key, signature) ==
    IF public_key.kind = "Rsa" THEN Some(Encode(RsaSha2_512, signature)) ELSE None

ByteSamples == {0, 1, 255}

RECURSIVE BytesOfLen(_)
BytesOfLen(n) ==
    IF n = 0 THEN {<<>>}
    ELSE {Append(t, b) : t \in BytesOfLen(n - 1), b \in ByteSamples}

\* the non-empty byte strings of at most n bytes
NonEmptyBytes(n) == UNION {BytesOfLen(k) : k \in 1..n}

\* raw signatures the remote service returns in the main specification
SigSamples == {<<1>>, <<0, 255>>}

-----------------------------------------------------------------------------
(* The CA key.                                                             *)
KeyIds == {"alias/ca", "arn:ca"}
User == "alice"
RsaAlgorithm == "rsaEncryption"

Options(S) == {None} \cup {Some(x) : x \in S}

\* DER documents a GetPublicKey response can carry: not a SubjectPublicKeyInfo,
\* an RSA key, an RSA algorithm identifier around a malformed PKCS#1 key, an
\* elliptic-curve key
DerSamples ==
    { [spki |-> FALSE, algorithm |-> "", pkcs1 |-> None],
      [spki |-> TRUE, algorithm |-> RsaAlgorithm, pkcs1 |-> Some([e |-> 65537, n |-> 3233])],
      [spki |-> TRUE, algorithm |-> RsaAlgorithm, pkcs1 |-> None],
      [spki |-> TRUE, algorithm |-> "id-ecPublicKey", pkcs1 |-> None] }

\* outcomes of the GetPublicKey call: an error, or a response
GetOutcomes ==
    {[ok |-> FALSE, key_id |-> None, public_key |-> None]}
    \cup {[ok |-> TRUE, key_id |-> k, public_key |-> d] :
            k \in Options(KeyIds), d \in Options(DerSamples)}

\* outcomes of the Sign call
SignOutcomes ==
    { [status |-> "transport_error", signature |-> None],
      [status |-> "rejected", signature |-> None],
      [status |-> "ok", signature |-> None] }
    \cup {[status |-> "ok", signature |-> Some(sg)] : sg \in SigSamples}

Failure(why) == [key |-> None, err |-> why]

\* the Key of lines 75-87 for an RSA key, with this comment
RsaKey(response, comment, user) ==
    [public_key |->
        [key_type |-> "ssh-rsa",
         kind |-> "Rsa",
         e |-> Unwrap(Unwrap(response.public_key).pkcs1).e,
         n |-> Unwrap(Unwrap(response.public_key).pkcs1).n,
         comment |-> comment],
     signing_algorithm |-> "RSASSA_PKCS1_V1_5_SHA_512",
     user |-> user]

\* a variant that does not insist on the response's key_id
Key_get_unchecked_id(response, key_id, user) ==
    IF ~response.ok THEN Failure("GetPublicKey failed")
    ELSE IF response.public_key = None THEN Failure("missing public_key")
    ELSE LET der == Unwrap(response.public_key)
         IN  IF ~der.spki THEN Failure("malformed DER")
             ELSE IF der.algorithm # RsaAlgorithm THEN Failure("unsupported key algorithm")
             ELSE IF der.pkcs1 = None THEN Failure("malformed PKCS#1 key")
             ELSE [key |-> Some(RsaKey(response, response.key_id, user)), err |-> ""]

\* a variant that keeps the key_id it asked for as the comment
Key_get_requested_id(response, key_id, user) ==
    IF ~response.ok THEN Failure("GetPublicKey failed")
    ELSE IF response.key_id = None THEN Failure("missing key_id")
    ELSE IF response.public_key = None THEN Failure("missing public_key")
    ELSE LET der == Unwrap(response.public_key)
         IN  IF ~der.spki THEN Failure("malformed DER")
             ELSE IF der.algorithm # RsaAlgorithm THEN Failure("unsupported key algorithm")
             ELSE IF der.pkcs1 = None THEN Failure("malformed PKCS#1 key")
             ELSE [key |-> Some(RsaKey(response, Some(key_id), user)), err |-> ""]

\* Key::get once the GetPublicKey call has returned `response`
Key_get(response, key_id, user) ==
    IF ~response.ok THEN Failure("GetPublicKey failed")
    ELSE IF response.key_id = None THEN Failure("missing key_id")
    ELSE IF response.public_key = None THEN Failure("missing public_key")
    ELSE LET der == Unwrap(response.public_key)
         IN  IF ~der.spki THEN Failure("malformed DER")
             ELSE IF der.algorithm # RsaAlgorithm THEN Failure("unsupported key algorithm")
             ELSE IF der.pkcs1 = None THEN Failure("malformed PKCS#1 key")
             ELSE [key |-> Some(RsaKey(response, Some(Unwrap(response.key_id)), user)),
                   err |-> ""]

\* Key::key_id; None stands for the panic of unwrap() on an absent comment
key_id_of(k) == k.public_key.comment

-----------------------------------------------------------------------------
(* Files.  A content is a sequence of bytes, each tagged <<origin, index>>: *)
(* origin -1 is a public key, -2 other data, 0 a certificate written       *)
(* before the first run, r >= 1 the certificate line written by run r.     *)
Line(r) == [i \in 1..LineLen |-> <<r, i>>]
SubjectKeyText == << <<-1, 1>> >>
Junk == << <<-2, 1>> >>

\* a variant that opens an existing file without truncating it
FileCreate_keeping(old) == IF old = None THEN Some(<<>>) ELSE old

\* File::create on a file whose content is `old`: created or truncated
FileCreate(old) == Some(<<>>)

-----------------------------------------------------------------------------
(* One run of the program after another.                                   *)

Envs ==
    [command : {"pubkey", "sign", "other"},
     key_id : Options(KeyIds),
     user : {User},
     path : Options(PathSamples),
     overflow_checks : BOOLEAN]

NotUnderTest == None

Init ==
    /\ env \in Envs
    /\ run = 1
    /\ pc = "main"
    /\ calls = <<>>
    /\ inFlight = {}
    /\ getResp = None
    /\ key = None
    /\ out = None
    /\ subject = None
    /\ clock = None
    /\ cert = None
    /\ signedCerts = 0
    /\ subjFile \in {None, Some(Junk), Some(SubjectKeyText)}
    /\ certFile \in {None, Some(Line(0)), Some(Line(0) \o Line(0))}
    /\ certFileAtStart = certFile
    /\ result = "running"
    /\ failedAt = ""
    /\ stages = <<>>
    /\ stdout = <<>>
    /\ prevSignFailed = FALSE
    /\ enc = NotUnderTest

\* the run ends: main returns Ok or Err, or the process panics
Finish(how, stage) ==
    /\ pc' = "done"
    /\ result' = how
    /\ failedAt' = stage

Proceed(to, stage) ==
    /\ pc' = to
    /\ stages' = Append(stages, stage)
    /\ UNCHANGED <<result, failedAt>>

\* RT.block_on(call.send()): the request is issued and the caller waits
Send(request) ==
    /\ calls' = Append(calls, request)
    /\ inFlight' = inFlight \cup {Len(calls) + 1}

\* a variant in which the call is detached instead of driven to completion
Completed_detached(inflight, i) == inflight

\* the calls in flight once block_on has returned the outcome of call i
Completed(inflight, i) == inflight \ {i}

SignCalls == {i \in 1..Len(calls) : calls[i].op = "Sign"}

\* main, lines 25-32: a required environment variable is not set
MainEnvFail ==
    /\ pc = "main"
    /\ env.key_id = None
    /\ Finish("err", "env")
    /\ UNCHANGED <<env, run, calls, inFlight, getResp, key, out, subject, clock, cert,
                   signedCerts, subjFile, certFile, certFileAtStart, stages, stdout,
                   prevSignFailed, enc>>

\* main line 35, Key::get line 62: the GetPublicKey request is sent
SendGetPublicKey ==
    /\ pc = "main"
    /\ env.key_id # None
    /\ Send([op |-> "GetPublicKey", key_id |-> Unwrap(env.key_id)])
    /\ Proceed("get_wait", "env")
    /\ UNCHANGED <<env, run, getResp, key, out, subject, clock, cert, signedCerts,
                   subjFile, certFile, certFileAtStart, stdout, prevSignFailed, enc>>

\* Key::get lines 62-90: the call returns and the response is decoded
GetPublicKeyReturn ==
    /\ pc = "get_wait"
    /\ \E response \in GetOutcomes :
         LET got == Key_get(response, Unwrap(env.key_id), env.user)
         IN  /\ getResp' = Some(response)
             /\ inFlight' = Completed(inFlight, Len(calls))
             /\ key' = got.key
             /\ IF IsSome(got.key)
                THEN Proceed("dispatch", "get")
                ELSE Finish("err", "get") /\ UNCHANGED stages
    /\ UNCHANGED <<env, run, calls, out, subject, clock, cert, signedCerts, subjFile,
                   certFile, certFileAtStart, stdout, prevSignFailed, enc>>

\* impl Display for Key
TrustLine(k) ==
    [principals |-> k.user, key_type |-> k.public_key.key_type,
     comment |-> k.public_key.comment]

\* main lines 37-47: the command is dispatched
Dispatch ==
    /\ pc = "dispatch"
    /\ IF env.command = "pubkey"
       THEN /\ stdout' = Append(stdout, TrustLine(Unwrap(key)))
            /\ Finish("ok", "")
            /\ UNCHANGED stages
       ELSE IF env.command = "sign"
       THEN IF env.path = None
            THEN Finish("err", "path_env") /\ UNCHANGED <<stages, stdout>>
            ELSE Proceed("cert_path", "command") /\ UNCHANGED stdout
       ELSE Finish("err", "command") /\ UNCHANGED <<stages, stdout>>
    /\ UNCHANGED <<env, run, calls, inFlight, getResp, key, out, subject, clock, cert,
                   signedCerts, subjFile, certFile, certFileAtStart, prevSignFailed, enc>>

\* sign_path line 94
DeriveOutPath ==
    /\ pc = "cert_path"
    /\ out' = cert_path(Unwrap(env.path))
    /\ IF IsSome(out')
       THEN Proceed("load_key", "cert_path")
       ELSE Finish("err", "cert_path") /\ UNCHANGED stages
    /\ UNCHANGED <<env, run, calls, inFlight, getResp, key, subject, clock, cert,
                   signedCerts, subjFile, certFile, certFileAtStart, stdout,
                   prevSignFailed, enc>>

\* PublicKey::from_path on a file of this content
from_path(content) ==
    IF content = Some(SubjectKeyText) THEN Some("ssh-ed25519") ELSE None

\* sign_path lines 96-97
LoadSubjectKey ==
    /\ pc = "load_key"
    /\ subject' = from_path(subjFile)
    /\ IF IsSome(subject')
       THEN Proceed("clock", "load_key")
       ELSE Finish("err", "load_key") /\ UNCHANGED stages
    /\ UNCHANGED <<env, run, calls, inFlight, getResp, key, out, clock, cert,
                   signedCerts, subjFile, certFile, certFileAtStart, stdout,
                   prevSignFailed, enc>>

\* sign_path lines 98-101
ReadClock ==
    /\ pc = "clock"
    /\ \E reading \in ClockReadings :
         /\ clock' = Some(reading)
         /\ IF IsSome(duration_since_epoch(reading))
            THEN Proceed("build", "clock")
            ELSE Finish("err", "clock") /\ UNCHANGED stages
    /\ UNCHANGED <<env, run, calls, inFlight, getResp, key, out, subject, cert,
                   signedCerts, subjFile, certFile, certFileAtStart, stdout,
                   prevSignFailed, enc>>

\* sign_path line 102: Certificate::builder(..)? returns Err
BuilderFail ==
    /\ pc = "build"
    /\ Finish("err", "build")
    /\ UNCHANGED <<env, run, calls, inFlight, getResp, key, out, subject, clock, cert,
                   signedCerts, subjFile, certFile, certFileAtStart, stages, stdout,
                   prevSignFailed, enc>>

\* the certificate of lines 102-107, not yet signed
Draft(k, subj, now, before) ==
    [cert_type |-> "User",
     subject_key |-> subj,
     signature_key |-> k.public_key,
     principals |-> {k.user},
     key_id |-> k.user,
     extensions |-> "standard",
     valid_after |-> now,
     valid_before |-> before,
     signature |-> None]

\* sign_path lines 102-108 and Key::sign lines 133-141: the certificate is
\* built and the Sign request for its encoding is sent
BuildAndSendSign ==
    /\ pc = "build"
    /\ LET now == Unwrap(duration_since_epoch(Unwrap(clock)))
           before == AddDay(now, env.overflow_checks)
           k == Unwrap(key)
       IN  IF before = None \/ key_id_of(k) = None
           THEN /\ Finish("panic", "build")
                /\ UNCHANGED <<calls, inFlight, cert, stages>>
           ELSE LET draft == Draft(k, Unwrap(subject), now, Unwrap(before))
                IN  /\ cert' = Some(draft)
                    /\ Send([op |-> "Sign",
                             key_id |-> Unwrap(key_id_of(k)),
                             signing_algorithm |-> k.signing_algorithm,
                             message |-> draft])
                    /\ Proceed("sign_wait", "build")
    /\ UNCHANGED <<env, run, getResp, key, out, subject, clock, signedCerts, subjFile,
                   certFile, certFileAtStart, stdout, prevSignFailed, enc>>

\* Key::sign lines 142-143: what the signer returns for an outcome of the call
Key_sign(k, outcome) ==
    IF outcome.status # "ok" THEN None
    ELSE IF outcome.signature = None THEN None
    ELSE format_signature_for_ssh(k.public_key, Unwrap(outcome.signature))

\* a variant that builds and signs again after a failed Sign
AfterSignFailure_retry == "build"

\* where a run goes when the signer returned None (sign_path line 108, `?`)
AfterSignFailure == "done"

\* Key::sign lines 142-143 and sign_path line 108: the Sign call returns.
\* Certificate::sign may return Err although the signer returned an envelope.
SignReturn ==
    /\ pc = "sign_wait"
    /\ \E outcome \in SignOutcomes, accepted \in BOOLEAN :
         LET envelope == Key_sign(Unwrap(key), outcome)
         IN  /\ inFlight' = Completed(inFlight, Len(calls))
             /\ IF envelope = None
                THEN /\ accepted
                     /\ pc' = AfterSignFailure
                     /\ result' = IF pc' = "done" THEN "err" ELSE result
                     /\ failedAt' = "sign"
                     /\ UNCHANGED <<cert, signedCerts, stages>>
                ELSE IF ~accepted
                THEN /\ Finish("err", "verify")
                     /\ UNCHANGED <<cert, signedCerts, stages>>
                ELSE /\ cert' = Some([Unwrap(cert) EXCEPT !.signature = envelope])
                     /\ signedCerts' = signedCerts + 1
                     /\ Proceed("create", "sign")
    /\ UNCHANGED <<env, run, calls, getResp, key, out, subject, clock, subjFile,
                   certFile, certFileAtStart, stdout, prevSignFailed, enc>>

\* the output path names the subject-key file itself
OutIsSubject == out = env.path

Target == IF OutIsSubject THEN subjFile ELSE certFile

SetTarget(content) ==
    IF OutIsSubject
    THEN subjFile' = content /\ UNCHANGED certFile
    ELSE certFile' = content /\ UNCHANGED subjFile

\* sign_path line 110
CreateFile ==
    /\ pc = "create"
    /\ \E created \in BOOLEAN :
         IF created
         THEN SetTarget(FileCreate(Target)) /\ Proceed("write", "create")
         ELSE /\ Finish("err", "create")
              /\ UNCHANGED <<subjFile, certFile, stages>>
    /\ UNCHANGED <<env, run, calls, inFlight, getResp, key, out, subject, clock, cert,
                   signedCerts, certFileAtStart, stdout, prevSignFailed, enc>>

\* the bytes of this run's line that are in a content
Written(content) == Len(SelectSeq(content, LAMBDA t : t[1] = run))

\* sign_path line 111: one more byte of the line is written, or the write fails
WriteLine ==
    /\ pc = "write"
    /\ \E written \in BOOLEAN :
         IF written
         THEN LET i == Written(Unwrap(Target)) + 1
              IN  /\ SetTarget(Some(Append(Unwrap(Target), Line(run)[i])))
                  /\ IF i = LineLen
                     THEN Finish("ok", "") /\ stages' = Append(stages, "write")
                     ELSE UNCHANGED <<pc, result, failedAt, stages>>
         ELSE /\ Finish("err", "write")
              /\ UNCHANGED <<subjFile, certFile, stages>>
    /\ UNCHANGED <<env, run, calls, inFlight, getResp, key, out, subject, clock, cert,
                   signedCerts, certFileAtStart, stdout, prevSignFailed, enc>>

\* the program is run again, in the same environment and on the same files
NextRun ==
    /\ pc = "done"
    /\ run < MaxRuns
    /\ run' = run + 1
    /\ pc' = "main"
    /\ calls' = <<>>
    /\ inFlight' = {}
    /\ getResp' = None
    /\ key' = None
    /\ out' = None
    /\ subject' = None
    /\ clock' = None
    /\ cert' = None
    /\ signedCerts' = 0
    /\ certFileAtStart' = certFile
    /\ result' = "running"
    /\ failedAt' = ""
    /\ stages' = <<>>
    /\ stdout' = <<>>
    /\ prevSignFailed' = (prevSignFailed \/ failedAt = "sign")
    /\ UNCHANGED <<env, subjFile, certFile, enc>>

Next ==
    \/ MainEnvFail
    \/ SendGetPublicKey
    \/ GetPublicKeyReturn
    \/ Dispatch
    \/ DeriveOutPath
    \/ LoadSubjectKey
    \/ ReadClock
    \/ BuilderFail
    \/ BuildAndSendSign
    \/ SignReturn
    \/ CreateFile
    \/ WriteLine
    \/ NextRun

Spec == Init /\ [][Next]_vars

-----------------------------------------------------------------------------
(* The output-path derivation on its own: sign_path's first step, from a   *)
(* run that has resolved the CA key, for every path text of the bound.     *)

ResolvedResponse ==
    [ok |-> TRUE, key_id |-> Some("arn:ca"),
     public_key |-> Some([spki |-> TRUE, algorithm |-> RsaAlgorithm,
                          pkcs1 |-> Some([e |-> 65537, n |-> 3233])])]

InitPath ==
    /\ env \in [command : {"sign"}, key_id : {Some("alias/ca")}, user : {User},
                path : {Some(t) : t \in TextsUpTo(PathChars, MaxPathLen)},
                overflow_checks : {TRUE}]
    /\ run = 1
    /\ pc = "cert_path"
    /\ calls = <<[op |-> "GetPublicKey", key_id |-> "alias/ca"]>>
    /\ inFlight = {}
    /\ getResp = Some(ResolvedResponse)
    /\ key = Key_get(ResolvedResponse, "alias/ca", User).key
    /\ out = None
    /\ subject = None
    /\ clock = None
    /\ cert = None
    /\ signedCerts = 0
    /\ subjFile = Some(SubjectKeyText)
    /\ certFile = None
    /\ certFileAtStart = None
    /\ result = "running"
    /\ failedAt = ""
    /\ stages = <<"env", "get", "command">>
    /\ stdout = <<>>
    /\ prevSignFailed = FALSE
    /\ enc = NotUnderTest

SpecPath == InitPath /\ [][DeriveOutPath]_vars

-----------------------------------------------------------------------------
(* The signature-envelope encoder on its own.                              *)

EncNames == NonEmptyBytes(MaxNameLen) \cup {RsaSha2_512}

InitEnc ==
    /\ enc \in {Some([name |-> nm, sig |-> sg, envelope |-> None]) :
                  nm \in EncNames, sg \in NonEmptyBytes(MaxSigLen)}
    /\ env = [command |-> "sign", key_id |-> Some("alias/ca"), user |-> User,
              path |-> None, overflow_checks |-> TRUE]
    /\ run = 1
    /\ pc = "sign_wait"
    /\ calls = <<>>
    /\ inFlight = {}
    /\ getResp = None
    /\ key = None
    /\ out = None
    /\ subject = None
    /\ clock = None
    /\ cert = None
    /\ signedCerts = 0
    /\ subjFile = None
    /\ certFile = None
    /\ certFileAtStart = None
    /\ result = "running"
    /\ failedAt = ""
    /\ stages = <<>>
    /\ stdout = <<>>
    /\ prevSignFailed = FALSE

\* the encoder is applied to the input
EncodeSignature ==
    /\ IsSome(enc)
    /\ Unwrap(enc).envelope = None
    /\ enc' = Some([Unwrap(enc) EXCEPT
                      !.envelope = Some(Encode(Unwrap(enc).name, Unwrap(enc).sig))])
    /\ UNCHANGED <<env, run, pc, calls, inFlight, getResp, key, out, subject, clock,
                   cert, signedCerts, subjFile, certFile, certFileAtStart, result,
                   failedAt, stages, stdout, prevSignFailed>>

SpecEnc == InitEnc /\ [][EncodeSignature]_vars

-----------------------------------------------------------------------------
(* Properties.                                                             *)

Done == pc = "done"
Signed == IsSome(cert) /\ Unwrap(cert).signature # None
InSignPath == \E i \in 1..Len(stages) : stages[i] = "command"
IsPrefix(a, b) == Len(a) <= Len(b) /\ a = SubSeq(b, 1, Len(a))
EndsWith(t, suffix) ==
    /\ Len(t) >= Len(suffix)
    /\ \A i \in 1..Len(suffix) : t[Len(t) - Len(suffix) + i] = suffix[i]

\* C1: a run that fails, at whatever stage, leaves the certificate file as
\* it was when the run started: not created, not truncated, not partly
\* written.
C1_NoArtifactOnFailure ==
    (Done /\ result # "ok") => certFile = certFileAtStart

\* C2, as stated: a run whose Sign call fails returns an error and leaves
\* the certificate file as it was; a later run in which Sign succeeds leaves
\* the file holding exactly the one certificate line of that run.
C2_SignSucceededLeavesOneLine ==
    Done =>
      /\ failedAt = "sign" => result = "err" /\ certFile = certFileAtStart
      /\ (prevSignFailed /\ Signed) => certFile = Some(Line(run))

\* C2, amended: a run whose Sign call fails returns an error, and the
\* certificate file is untouched until the certificate is signed; a run
\* that returns Ok leaves the file holding exactly the one certificate line
\* of that run; a run that fails at File::create leaves the file as it was,
\* and one that fails at the write leaves a proper prefix of its line and
\* nothing of the earlier content.
C2_SignFailureLeavesFile ==
    /\ pc \notin {"write", "done"} => certFile = certFileAtStart
    /\ Done =>
         /\ failedAt = "sign" =>
              result = "err" /\ ~Signed /\ certFile = certFileAtStart
         /\ (result = "ok" /\ env.command = "sign") =>
              Signed /\ certFile = Some(Line(run))
         /\ (Signed /\ failedAt = "create") => certFile = certFileAtStart
         /\ (Signed /\ failedAt = "write") =>
              /\ IsSome(certFile)
              /\ IsPrefix(Unwrap(certFile), Line(run))
              /\ Len(Unwrap(certFile)) < LineLen

C2_Witness ==
    /\ Done
    /\ prevSignFailed
    /\ result = "ok"
    /\ certFileAtStart = Some(Line(0) \o Line(0))
    /\ certFile = Some(Line(run))

\* the causes of failure C3 names, read off the outcome of GetPublicKey
ResolutionFails(response) ==
    \/ ~response.ok
    \/ response.key_id = None
    \/ response.public_key = None
    \/ ~Unwrap(response.public_key).spki
    \/ Unwrap(response.public_key).algorithm # RsaAlgorithm
    \/ Unwrap(response.public_key).pkcs1 = None

\* C3: when the GetPublicKey call errors, its response lacks key_id or
\* public_key, the DER (of the key info or of the RSA key in it) is
\* malformed or the algorithm is not RSA, Key::get returns an error and no
\* Key, the run ends with that error and issues no
\* Sign request; a Key that is returned has its comment.
C3_FailedResolutionNeverSigns ==
    /\ (IsSome(getResp) /\ ResolutionFails(Unwrap(getResp))) =>
         /\ key = None
         /\ Done /\ result = "err" /\ failedAt = "get"
         /\ SignCalls = {}
    /\ IsSome(key) => IsSome(getResp) /\ Unwrap(key).public_key.comment # None

C3_Witness ==
    /\ Done
    /\ IsSome(getResp)
    /\ Unwrap(getResp).ok
    /\ Unwrap(getResp).key_id = None
    /\ Unwrap(getResp).public_key # None
    /\ failedAt = "get"

\* C4: at most one remote call is in flight, and a Sign request is only
\* ever issued after the run's GetPublicKey call, the first of the run,
\* has completed and Key::get has returned a key.
C4_OneCallInFlight ==
    /\ Cardinality(inFlight) <= 1
    /\ \A i \in SignCalls :
         /\ i > 1
         /\ calls[1].op = "GetPublicKey"
         /\ 1 \notin inFlight
         /\ IsSome(key)
         /\ IsSome(getResp) /\ ~ResolutionFails(Unwrap(getResp))

C4_Witness == pc = "sign_wait" /\ inFlight = {2} /\ calls[2].op = "Sign"

\* C5: a run issues at most one Sign request and produces at most one
\* signed certificate; once the Sign call has failed the run has ended with
\* an error, the failed Sign being its last remote call and none in flight.
C5_AtMostOneSign ==
    /\ Cardinality(SignCalls) <= 1
    /\ signedCerts <= 1
    /\ failedAt = "sign" =>
         /\ Done /\ result = "err"
         /\ inFlight = {}
         /\ SignCalls = {Len(calls)}
         /\ signedCerts = 0 /\ ~Signed

C5_Witness == Done /\ failedAt = "sign" /\ Cardinality(SignCalls) = 1

C7_KeyShape ==
    /\ IsSome(key) =>
         LET k == Unwrap(key)
         IN  /\ k.public_key.key_type = "ssh-rsa"
             /\ k.signing_algorithm = "RSASSA_PKCS1_V1_5_SHA_512"
             /\ IsSome(getResp)
             /\ Unwrap(getResp).key_id # None
             /\ k.public_key.comment = Unwrap(getResp).key_id
             /\ key_id_of(k) # None
    /\ \A i \in SignCalls :
         /\ IsSome(key)
         /\ Some(calls[i].key_id) = Unwrap(key).public_key.comment
         /\ calls[i].signing_algorithm = "RSASSA_PKCS1_V1_5_SHA_512"

\* C7: a Key that Key::get returned has key type ssh-rsa, the signing
\* algorithm RSASSA_PKCS1_V1_5_SHA_512 and a present comment equal to the
\* key_id of the GetPublicKey response; it does not change for the rest of
\* the run, and every Sign request carries that key_id and that algorithm.
C7_KeyIsResolvedId ==
    /\ []C7_KeyShape
    /\ [][(IsSome(key) /\ run' = run) => key' = key]_vars

C7_Witness ==
    /\ pc = "sign_wait"
    /\ SignCalls # {}
    /\ env.key_id # Unwrap(key).public_key.comment
    /\ calls[2].key_id = "arn:ca"

\* the value of four big-endian bytes
BEValue(b) == ((b[1] * 256 + b[2]) * 256 + b[3]) * 256 + b[4]

\* the length-prefixed field that starts at position pos of bytes
ReadField(bytes, pos) ==
    IF pos + 3 > Len(bytes) THEN None
    ELSE LET n == BEValue(SubSeq(bytes, pos, pos + 3))
         IN  IF pos + 3 + n > Len(bytes) THEN None
             ELSE Some([val |-> SubSeq(bytes, pos + 4, pos + 3 + n), next |-> pos + 4 + n])

\* the two fields of an envelope, None unless they make up all of it
ParseEnvelope(bytes) ==
    LET first == ReadField(bytes, 1)
        second == IF IsSome(first) THEN ReadField(bytes, Unwrap(first).next) ELSE None
    IN  IF IsSome(second) /\ Unwrap(second).next = Len(bytes) + 1
        THEN Some(<<Unwrap(first).val, Unwrap(second).val>>)
        ELSE None

\* C8: the envelope of a non-empty name and a non-empty signature is
\* 8 + len(name) + len(sig) bytes long, starts with the big-endian length
\* of the name, and parses back into exactly (name, sig).
C8_EnvelopeRoundTrip ==
    (IsSome(enc) /\ Unwrap(enc).envelope # None) =>
      LET nm == Unwrap(enc).name
          sg == Unwrap(enc).sig
          e == Unwrap(Unwrap(enc).envelope)
      IN  /\ Len(e) = 8 + Len(nm) + Len(sg)
          /\ BEValue(SubSeq(e, 1, 4)) = Len(nm)
          /\ SubSeq(e, 5, 4 + Len(nm)) = nm
          /\ BEValue(SubSeq(e, 5 + Len(nm), 8 + Len(nm))) = Len(sg)
          /\ SubSeq(e, 9 + Len(nm), Len(e)) = sg
          /\ ParseEnvelope(e) = Some(<<nm, sg>>)

C8_Witness ==
    /\ IsSome(enc)
    /\ Unwrap(enc).name = RsaSha2_512
    /\ Unwrap(enc).sig = <<0, 255>>
    /\ Unwrap(enc).envelope # None

\* C9: once sign_path has derived the output path: if the file name of the
\* subject-key path ends in ".pub", the output path has the same parent
\* directory and that file name with the trailing ".pub" replaced by
\* "-cert.pub", and differs from the subject-key path; otherwise there is
\* no output path and sign_path has failed.
C9_CertPathReplacesSuffix ==
    pc # "cert_path" =>
      LET p == Unwrap(env.path)
          name == file_name(p)
      IN  IF IsSome(name) /\ EndsWith(Unwrap(name), DotPub)
          THEN /\ IsSome(out)
               /\ file_name(Unwrap(out)) =
                    Some(SubSeq(Unwrap(name), 1, Len(Unwrap(name)) - 4) \o CertDotPub)
               /\ parent(Unwrap(out)) = parent(p)
               /\ out # env.path
               /\ result = "running"
          ELSE /\ out = None
               /\ Done /\ result = "err" /\ failedAt = "cert_path"

C9_Witness ==
    /\ pc = "load_key"
    /\ has_root(Unwrap(env.path))
    /\ Len(Unwrap(out)) = Len(Unwrap(env.path)) + 5

StageOrder ==
    <<"env", "get", "command", "cert_path", "load_key", "clock", "build", "sign",
      "create", "write">>

\* C10: sign_path checks, in this order and before it builds the certificate:
\* that the output path can be derived, that the subject key loads, that the
\* clock is not before the epoch.  A run that fails one of the checks
\* returns an error with no Sign request issued, no certificate built and
\* the files untouched.
C10_LocalChecksComeFirst ==
    /\ IsPrefix(stages, StageOrder)
    /\ (IsSome(cert) \/ SignCalls # {} \/ pc \in {"build", "sign_wait", "create", "write"}) =>
         /\ IsSome(out) /\ IsSome(subject)
         /\ IsSome(clock) /\ ~Unwrap(clock).before_epoch
    /\ (InSignPath /\ pc \notin {"cert_path", "load_key", "clock"}
          /\ \/ cert_path(Unwrap(env.path)) = None
             \/ from_path(subjFile) = None
             \/ (IsSome(clock) /\ Unwrap(clock).before_epoch)) =>
         /\ Done /\ result = "err"
         /\ failedAt \in {"cert_path", "load_key", "clock"}
         /\ failedAt = "load_key" => IsSome(out)
         /\ failedAt = "clock" => IsSome(out) /\ IsSome(subject)
         /\ SignCalls = {} /\ cert = None
         /\ certFile = certFileAtStart

C10_Witness ==
    /\ Done
    /\ failedAt = "clock"
    /\ Unwrap(clock).before_epoch
    /\ stages = SubSeq(StageOrder, 1, 5)

====
